---- MODULE Spec2Model ----
(***************************************************************************)
(* Model of qualifier.py: valid_input (the validity predicate of an image  *)
(* size, a tile size and an ordering) and rearrange_tiles (open, validate, *)
(* split into a tile grid with numpy reshape/swapaxes, permute, reassemble *)
(* and save).  Python integers are unbounded, so no width is modelled.     *)
(* numpy arrays are pairs (shape, data) with data in C (row-major) order;  *)
(* all indices are 0-based as in the source, sequences are 1-based.        *)
(***************************************************************************)
EXTENDS Integers, Sequences, FiniteSets, TLC

\* ---------------------------------------------------------------- bounds
\* Largest image width and height enumerated.
MaxDim == 4
\* Longest permutation enumerated as an ordering.
MaxLen == 4
\* Largest number of bands of an image (1 = mode "L", 2 = "LA", 3 = "RGB").
MaxBands == 2
\* Longest arbitrary integer sequence enumerated as an ordering of valid_input.
MaxSeqLen == 3

\* ------------------------------------------------- Python / numpy helpers

\* Python's divmod(a, b) for b # 0: floor division and the matching remainder.
FloorDiv(a, b) == IF b > 0 THEN a \div b ELSE (-a) \div (-b)
divmod(a, b) == <<FloorDiv(a, b), a - b * FloorDiv(a, b)>>

\* reduce(lambda acc, i: acc * i, seq) on a non-empty sequence.
RECURSIVE prod(_)
prod(seq) ==
    IF Len(seq) = 1 THEN seq[1]
    ELSE prod(SubSeq(seq, 1, Len(seq) - 1)) * seq[Len(seq)]

\* set(ordering)
SetOf(seq) == {seq[k] : k \in 1..Len(seq)}

\* set(range(n))
RangeSet(n) == 0..(n - 1)

\* valid_input drops the length test (a set comparison alone).
valid_input_NoLengthTest(image_size, tile_size, ordering) ==
    IF prod(tile_size) = 0 THEN "ZeroDivisionError"
    ELSE LET dm == divmod(prod(image_size), prod(tile_size))
             tiles_ == dm[1]
             remainder == dm[2]
             o == SetOf(ordering)
         IN IF remainder = 0 /\ o = RangeSet(tiles_)
            THEN "True" ELSE "False"

\* valid_input: "True", "False", or the exception divmod raises on a zero divisor.
valid_input(image_size, tile_size, ordering) ==
    IF prod(tile_size) = 0 THEN "ZeroDivisionError"
    ELSE LET dm == divmod(prod(image_size), prod(tile_size))
             tiles_ == dm[1]
             remainder == dm[2]
             o == SetOf(ordering)
         IN IF /\ remainder = 0
               /\ Cardinality(o) = Len(ordering)
               /\ o = RangeSet(tiles_)
            THEN "True" ELSE "False"

\* Number of elements of an array of the given shape (1 for the empty shape).
RECURSIVE Size(_)
Size(shape) ==
    IF Len(shape) = 0 THEN 1 ELSE shape[1] * Size(Tail(shape))

\* Multi-index (0-based) of the flat C-order position k in an array of this shape.
Unravel(k, shape) ==
    [a \in 1..Len(shape) |->
        (k \div Size(SubSeq(shape, a + 1, Len(shape)))) % shape[a]]

\* Flat C-order position of a multi-index.
RECURSIVE Ravel(_, _)
Ravel(idx, shape) ==
    IF Len(idx) = 0 THEN 0
    ELSE idx[1] * Size(Tail(shape)) + Ravel(Tail(idx), Tail(shape))

\* ndarray.reshape(newshape) succeeds: no unknown (-1) dimension is inferred here
\* unless exactly one is given; any other negative dimension is an error.
CanReshape(arr, newshape) ==
    LET neg == {a \in 1..Len(newshape) : newshape[a] < 0}
        known == [a \in 1..Len(newshape) |-> IF newshape[a] = -1 THEN 1 ELSE newshape[a]]
    IN IF neg = {} THEN Size(newshape) = Len(arr.data)
       ELSE /\ Cardinality(neg) = 1
            /\ \A a \in neg : newshape[a] = -1
            /\ Size(known) > 0
            /\ Len(arr.data) % Size(known) = 0

\* ndarray.reshape(newshape), defined where CanReshape holds.
reshape(arr, newshape) ==
    LET known == [a \in 1..Len(newshape) |-> IF newshape[a] = -1 THEN 1 ELSE newshape[a]]
        full == [a \in 1..Len(newshape) |->
                    IF newshape[a] = -1 THEN Len(arr.data) \div Size(known)
                    ELSE newshape[a]]
    IN [shape |-> full, data |-> arr.data]

\* ndarray.swapaxes(x, y), axes 0-based.
swapaxes(arr, x, y) ==
    LET sw(s) == [a \in 1..Len(s) |->
                    IF a = x + 1 THEN s[y + 1] ELSE IF a = y + 1 THEN s[x + 1] ELSE s[a]]
        newshape == sw(arr.shape)
    IN [shape |-> newshape,
        data |-> [k \in 1..Len(arr.data) |->
                    arr.data[1 + Ravel(sw(Unravel(k - 1, newshape)), arr.shape)]]]

\* np.zeros(shape, dtype=np.uint8)
zeros(shape) == [shape |-> shape, data |-> [k \in 1..Size(shape) |-> 0]]

\* A numpy index into an axis of the given length is legal (negative ones wrap).
IndexOk(ix, n) == ix >= -n /\ ix < n
Wrap(ix, n) == IF ix < 0 THEN ix + n ELSE ix

\* Number of elements of arr[r, c] for a 5-dimensional array.
BlockLen(arr) == Size(SubSeq(arr.shape, 3, Len(arr.shape)))

\* arr[r, c]: the sub-array at the first two indices, flattened in C order.
GetBlock(arr, r, c) ==
    LET off == (Wrap(r, arr.shape[1]) * arr.shape[2] + Wrap(c, arr.shape[2])) * BlockLen(arr)
    IN SubSeq(arr.data, off + 1, off + BlockLen(arr))

\* arr[r, c] = block
SetBlock(arr, r, c, block) ==
    LET off == (Wrap(r, arr.shape[1]) * arr.shape[2] + Wrap(c, arr.shape[2])) * BlockLen(arr)
    IN [arr EXCEPT !.data =
            [k \in 1..Len(arr.data) |->
                IF k > off /\ k <= off + BlockLen(arr) THEN block[k - off] ELSE arr.data[k]]]

\* ------------------------------------------------------ PIL collaborators

\* A decoded image file: PIL's size is (width, height); data is row-major with
\* the bands of a pixel adjacent.  Pixel values are pairwise distinct and never
\* 0, so that every byte of an output can be traced back to its source.
MkImage(w, h, b) ==
    [size |-> <<w, h>>, bands |-> b, data |-> [k \in 1..(w * h * b) |-> k]]

\* The absence of a file at a path.
NoFile == [size |-> <<0, 0>>, bands |-> 0, data |-> <<>>]

\* np.asarray(img): (height, width, bands), or (height, width) for one band.
asarray(im) ==
    [shape |-> IF im.bands = 1 THEN <<im.size[2], im.size[1]>>
               ELSE <<im.size[2], im.size[1], im.bands>>,
     data |-> im.data]

\* Image.fromarray(arr) for a 3-dimensional array.
fromarray(arr) ==
    [size |-> <<arr.shape[2], arr.shape[1]>>, bands |-> arr.shape[3], data |-> arr.data]

\* ------------------------------------------------------------- the inputs

Paths == {"in", "out", "back"}

\* Tile dimensions enumerated: degenerate (negative, zero) and positive ones.
TileDims == -1..MaxDim

\* All permutations of 0..n-1, as sequences.
Perms(n) == {p \in [1..n -> 0..(n - 1)] : \A a, b \in 1..n : p[a] = p[b] => a = b}

identity(n) == [k \in 1..n |-> k - 1]

\* Orderings that are no permutation: a duplicate, a value out of range, one
\* entry too many, one entry too few.
Broken(n) ==
    {[identity(n) EXCEPT ![1] = n - 1], [identity(n) EXCEPT ![1] = n],
     Append(identity(n), 0), Tail(identity(n))}

Orderings ==
    UNION {Perms(n) : n \in 0..MaxLen} \cup UNION {Broken(n) : n \in 2..MaxLen}

\* The order q with q[p[i]] = i (0-based) of a permutation p.
Inverse(p) == [k \in 1..Len(p) |-> (CHOOSE j \in 1..Len(p) : p[j] = k - 1) - 1]

\* The message of the ValueError of rearrange_tiles.
InvalidArrangement == "The tile size or ordering are not valid for the given image"

NoArray == [shape |-> <<>>, data |-> <<>>]
NoDims == [img_height |-> 0, img_width |-> 0, channels |-> 0,
           tile_height |-> 0, tile_width |-> 0, rows |-> 0, cols |-> 0]

\* All integer sequences of length at most n over lo..hi.
SeqsUpTo(n, lo, hi) == UNION {[1..m -> lo..hi] : m \in 0..n}

\* The arguments of the assertion loop under __main__.
test_cases == {<<<<4, 4>>, <<2, 2>>, <<0, 1, 2, 4>>>>}

\* Further arguments of direct calls of valid_input: a 4x4 image with 2x2 and
\* 3x3 tiles.
TruthTable ==
    {<<<<4, 4>>, <<2, 2>>, <<0, 1, 2, 3>>>>,
     <<<<4, 4>>, <<2, 2>>, <<0, 1, 2>>>>,
     <<<<4, 4>>, <<2, 2>>, <<0, 1, 2, 3, 3>>>>,
     <<<<4, 4>>, <<2, 2>>, <<0, 1, 2, 3, 3, 4>>>>,
     <<<<4, 4>>, <<2, 2>>, <<0, 0, 2, 3>>>>,
     <<<<4, 4>>, <<3, 3>>, <<0>>>>,
     <<<<4, 4>>, <<3, 3>>, <<>>>>}

NoArgs == <<<<1, 1>>, <<1, 1>>, <<>>>>

VARIABLES
    fs,                \* the file system: path -> image file or NoFile
    call,              \* the arguments of the running call
    pc,                \* position in rearrange_tiles / in the direct valid_input call
    img_arr,           \* np.asarray(img)
    dims,              \* img_height, img_width, channels, tile_height, tile_width, rows, cols
    tiles,             \* the tile grid view (rows, cols, tile_height, tile_width, channels)
    arranged_img_arr,  \* the output under construction
    i,                 \* loop index of enumerate(ordering)
    exc,               \* the exception that ended the call, "none" otherwise
    result,            \* return value of a direct valid_input call, "none" before
    args,              \* (image_size, tile_size, ordering) of a direct valid_input call
    fs0,               \* history: the file system when the call started
    orig,              \* history: the image the first call read
    round              \* history: 1 for the first call, 2 for the call that undoes it

vars == <<fs, call, pc, img_arr, dims, tiles, arranged_img_arr, i, exc, result, args, fs0, orig, round>>

locals == <<img_arr, dims, tiles, arranged_img_arr, i>>

\* The image the running call opened (Image.open(image_path)).
img == fs[call.image_path]

\* rearrange_tiles(image_path, tile_size, ordering, out_path) is called on a
\* file of any enumerated size.
Init ==
    \E w \in 1..MaxDim, h \in 1..MaxDim, b \in 1..MaxBands,
       tw \in TileDims, th \in TileDims, o \in Orderings :
        /\ fs = [p \in Paths |-> IF p = "in" THEN MkImage(w, h, b) ELSE NoFile]
        /\ call = [image_path |-> "in", tile_size |-> <<tw, th>>,
                   ordering |-> o, out_path |-> "out"]
        /\ pc = "start"
        /\ img_arr = NoArray /\ dims = NoDims /\ tiles = NoArray
        /\ arranged_img_arr = NoArray /\ i = 0
        /\ exc = "none" /\ result = "none" /\ args = NoArgs
        /\ fs0 = fs /\ orig = fs["in"] /\ round = 1

Raise(e) ==
    /\ pc' = "raised"
    /\ exc' = e

\* Validate without the test of line 53: every input that valid_input returns
\* on goes on to the array.
Validate_Unchecked ==
    /\ pc = "start"
    /\ LET v == valid_input(img.size, call.tile_size, call.ordering)
       IN IF v \in {"True", "False"} THEN pc' = "validated" /\ exc' = exc
          ELSE Raise(v)
    /\ UNCHANGED <<fs, call, locals, result, args, fs0, orig, round>>

\* Lines 52-56: open the image and validate; an invalid input raises ValueError,
\* an exception of valid_input propagates.
Validate ==
    /\ pc = "start"
    /\ LET v == valid_input(img.size, call.tile_size, call.ordering)
       IN IF v = "True" THEN pc' = "validated" /\ exc' = exc
          ELSE IF v = "False" THEN Raise(InvalidArrangement)
          ELSE Raise(v)
    /\ UNCHANGED <<fs, call, locals, result, args, fs0, orig, round>>

\* Lines 58-60: the array of the image and the unpacking of its shape and of
\* tile_size.
Unpack ==
    /\ pc = "validated"
    /\ LET a == asarray(img)
       IN /\ img_arr' = a
          /\ IF Len(a.shape) # 3
             THEN Raise("ValueError: not enough values to unpack") /\ dims' = dims
             ELSE /\ pc' = "unpacked" /\ exc' = exc
                  /\ dims' = [dims EXCEPT !.img_height = a.shape[1],
                                          !.img_width = a.shape[2],
                                          !.channels = a.shape[3],
                                          !.tile_height = call.tile_size[1],
                                          !.tile_width = call.tile_size[2]]
    /\ UNCHANGED <<fs, call, tiles, arranged_img_arr, i, result, args, fs0, orig, round>>

\* The shape handed to reshape on lines 64-70.
GridShape(d) == <<d.rows, d.tile_height, d.cols, d.tile_width, d.channels>>

\* Lines 62-72: rows, cols, the tile grid and the zeroed output.
Tile ==
    /\ pc = "unpacked"
    /\ LET d == [dims EXCEPT !.rows = FloorDiv(dims.img_height, dims.tile_height),
                             !.cols = FloorDiv(dims.img_width, dims.tile_width)]
       IN /\ dims' = d
          /\ IF ~CanReshape(img_arr, GridShape(d))
             THEN /\ Raise("ValueError: cannot reshape array")
                  /\ UNCHANGED <<tiles, arranged_img_arr>>
             ELSE /\ tiles' = swapaxes(reshape(img_arr, GridShape(d)), 1, 2)
                  /\ arranged_img_arr' = zeros(tiles'.shape)
                  /\ pc' = "loop" /\ exc' = exc
    /\ i' = 0
    /\ UNCHANGED <<fs, call, img_arr, result, args, fs0, orig, round>>

\* Lines 74-77: one iteration of the loop over enumerate(ordering).
LoopStep ==
    /\ pc = "loop"
    /\ i < Len(call.ordering)
    /\ IF dims.cols = 0
       THEN Raise("ZeroDivisionError") /\ UNCHANGED <<arranged_img_arr, i>>
       ELSE LET order == call.ordering[i + 1]
                rc == divmod(i, dims.cols)
                correct == divmod(order, dims.cols)
            IN IF /\ IndexOk(rc[1], dims.rows) /\ IndexOk(rc[2], dims.cols)
                  /\ IndexOk(correct[1], dims.rows) /\ IndexOk(correct[2], dims.cols)
               THEN /\ arranged_img_arr' =
                        SetBlock(arranged_img_arr, rc[1], rc[2],
                                 GetBlock(tiles, correct[1], correct[2]))
                    /\ i' = i + 1
                    /\ UNCHANGED <<pc, exc>>
               ELSE Raise("IndexError") /\ UNCHANGED <<arranged_img_arr, i>>
    /\ UNCHANGED <<fs, call, img_arr, dims, tiles, result, args, fs0, orig, round>>

\* Reassemble into (width, height, channels), the order of img.size, instead
\* of the shape of the input array.
Reassemble_Transposed ==
    /\ pc = "loop"
    /\ i = Len(call.ordering)
    /\ arranged_img_arr' =
          reshape(swapaxes(arranged_img_arr, 1, 2),
                  <<img_arr.shape[2], img_arr.shape[1], img_arr.shape[3]>>)
    /\ pc' = "assembled"
    /\ UNCHANGED <<fs, call, img_arr, dims, tiles, i, exc, result, args, fs0, orig, round>>

\* Line 79: back from the tile grid to the shape of the input array.
Reassemble ==
    /\ pc = "loop"
    /\ i = Len(call.ordering)
    /\ arranged_img_arr' = reshape(swapaxes(arranged_img_arr, 1, 2), img_arr.shape)
    /\ pc' = "assembled"
    /\ UNCHANGED <<fs, call, img_arr, dims, tiles, i, exc, result, args, fs0, orig, round>>

\* Lines 80-81: the image of the array is saved under out_path.
Save ==
    /\ pc = "assembled"
    /\ fs' = [fs EXCEPT ![call.out_path] = fromarray(arranged_img_arr)]
    /\ pc' = "saved"
    /\ UNCHANGED <<call, locals, exc, result, args, fs0, orig, round>>

\* The caller undoes a rearrangement: a second call on the saved file with the
\* inverse ordering.
CallInverse ==
    /\ pc = "saved"
    /\ round = 1
    /\ call' = [call EXCEPT !.image_path = call.out_path,
                            !.ordering = Inverse(call.ordering),
                            !.out_path = "back"]
    /\ pc' = "start"
    /\ round' = 2
    /\ fs0' = fs
    /\ img_arr' = NoArray /\ dims' = NoDims /\ tiles' = NoArray
    /\ arranged_img_arr' = NoArray /\ i' = 0
    /\ UNCHANGED <<fs, exc, result, args, orig>>

Next ==
    \/ Validate
    \/ Unpack
    \/ Tile
    \/ LoopStep
    \/ Reassemble
    \/ Save
    \/ CallInverse

Spec == Init /\ [][Next]_vars

\* ---------------------------------------------- direct calls of valid_input

\* valid_input(image_size, tile_size, ordering) is called on its own, as the
\* assertion loop under __main__ does, with any enumerated arguments.
InitV ==
    /\ \/ args \in test_cases \cup TruthTable
       \/ \E w \in 1..MaxDim, h \in 1..MaxDim, tw \in TileDims, th \in TileDims,
             o \in SeqsUpTo(MaxSeqLen, -1, MaxSeqLen) \cup Orderings :
             args = <<<<w, h>>, <<tw, th>>, o>>
    /\ fs = [p \in Paths |-> NoFile]
    /\ call = [image_path |-> "in", tile_size |-> args[2],
               ordering |-> args[3], out_path |-> "out"]
    /\ pc = "test"
    /\ img_arr = NoArray /\ dims = NoDims /\ tiles = NoArray
    /\ arranged_img_arr = NoArray /\ i = 0
    /\ exc = "none" /\ result = "none"
    /\ fs0 = fs /\ orig = NoFile /\ round = 0

\* Lines 12-28 called directly (line 87): the call returns or raises.
ValidInputCall ==
    /\ pc = "test"
    /\ LET v == valid_input(args[1], args[2], args[3])
       IN IF v \in {"True", "False"}
          THEN result' = v /\ pc' = "returned" /\ exc' = exc
          ELSE result' = result /\ Raise(v)
    /\ UNCHANGED <<fs, call, locals, args, fs0, orig, round>>

NextV == ValidInputCall

SpecV == InitV /\ [][NextV]_vars

\* ------------------------------------------------- vocabulary of the claims

\* t divides n without remainder (Python's n % t == 0; false for t = 0).
Divides(t, n) == t # 0 /\ n - t * FloorDiv(n, t) = 0

\* Both sizes are (width, height) pairs of positive numbers and the tile evenly
\* divides the image in each dimension.
PositiveDividing(image_size, tile_size) ==
    /\ \A a \in 1..2 : image_size[a] > 0 /\ tile_size[a] > 0
    /\ \A a \in 1..2 : Divides(tile_size[a], image_size[a])

\* N = (H / tileHeight) * (W / tileWidth) for sizes given as (width, height).
TileCount(image_size, tile_size) ==
    (image_size[2] \div tile_size[2]) * (image_size[1] \div tile_size[1])

\* o is a bijection from its positions onto 0..n-1.
IsBijectionOnto(o, n) ==
    /\ Len(o) = n
    /\ \A a \in 1..Len(o) : o[a] \in 0..(n - 1)
    /\ \A a, b \in 1..Len(o) : o[a] = o[b] => a = b

\* The value of band k of the pixel at (row, col) of an image file, 0-based.
Pixel(im, row, col, k) == im.data[(row * im.size[1] + col) * im.bands + k + 1]

\* The decoded image is an ImageBuffer: an array indexed [row][col][channel].
HasChannelAxis(im) == Len(asarray(im).shape) = 3

\* The running call was handed a (width, height) tile size that evenly divides
\* the image, and a permutation of its tile slots.
LegalCall ==
    /\ round \in {1, 2}
    /\ HasChannelAxis(img)
    /\ PositiveDividing(img.size, call.tile_size)
    /\ IsBijectionOnto(call.ordering, TileCount(img.size, call.tile_size))

\* --------------------------------------------------------------- the claims

\* C1: for positive sizes where the tile evenly divides the image, a direct call
\* of valid_input returns, and it returns True exactly when the ordering is a
\* bijection onto 0..N-1; for a 4x4 image with 2x2 tiles [0,1,2,3] is accepted
\* and [0,1,2,4], [0,1,2], [0,1,2,3,3], [0,1,2,3,3,4] are rejected.
C1_ValidIffBijection ==
    /\ (pc # "test" /\ round = 0 /\ PositiveDividing(args[1], args[2])) =>
          /\ pc = "returned"
          /\ (result = "True") <=>
                IsBijectionOnto(args[3], TileCount(args[1], args[2]))
    /\ (pc # "test" /\ round = 0 /\ args[1] = <<4, 4>> /\ args[2] = <<2, 2>>) =>
          /\ args[3] = <<0, 1, 2, 3>> => result = "True"
          /\ args[3] \in {<<0, 1, 2, 4>>, <<0, 1, 2>>, <<0, 1, 2, 3, 3>>,
                          <<0, 1, 2, 3, 3, 4>>} => result = "False"

\* valid_input has accepted the permutation [0,1,2,3] of a 4x4 image with 2x2 tiles.
C1_Witness ==
    /\ pc = "returned" /\ result = "True"
    /\ args = <<<<4, 4>>, <<2, 2>>, <<0, 1, 2, 3>>>>

\* C2: whenever valid_input returns True, the tile width divides the image
\* width and the tile height divides the image height (stated here for the
\* positive tile sizes alone).
C2_ValidImpliesDivides ==
    (pc = "returned" /\ result = "True" /\ args[2][1] > 0 /\ args[2][2] > 0) =>
        /\ Divides(args[2][1], args[1][1])
        /\ Divides(args[2][2], args[1][2])

\* The input is malformed: a tile dimension is zero or negative, the tile does
\* not divide the image, or the ordering is no bijection onto the tile slots.
Malformed(a) ==
    \/ ~PositiveDividing(a[1], a[2])
    \/ ~IsBijectionOnto(a[3], TileCount(a[1], a[2]))

\* C3: valid_input never raises; for every integer image size, tile size and
\* ordering it returns a boolean, and it returns False for malformed input.
C3_NeverRaises ==
    (pc # "test" /\ round = 0) =>
        /\ pc = "returned"
        /\ result \in {"True", "False"}
        /\ Malformed(args) => result = "False"

\* C4: whenever valid_input on the decoded size, tile_size and ordering returns
\* False, rearrange_tiles raises ValueError with the invalid-arrangement message
\* and the file system is as it was when the call started: the save is never
\* reached.
C4_InvalidRaisesBeforeOutput ==
    (round \in {1, 2} /\ pc # "start"
        /\ valid_input(img.size, call.tile_size, call.ordering) = "False") =>
        /\ pc = "raised"
        /\ exc = InvalidArrangement
        /\ fs = fs0
        /\ fs[call.out_path] = NoFile

\* rearrange_tiles has raised on an ordering with a duplicate for a tile size
\* that divides the image.
C4_Witness ==
    /\ pc = "raised" /\ exc = InvalidArrangement
    /\ PositiveDividing(img.size, call.tile_size)
    /\ Len(call.ordering) = TileCount(img.size, call.tile_size)
    /\ Len(call.ordering) >= 2
    /\ call.ordering[1] = call.ordering[Len(call.ordering)]

\* C5: on every input that valid_input accepts, rearrange_tiles raises nothing:
\* it runs through to the save (stated here for images with a channel axis and
\* positive tile sizes alone).
C5_ValidRunsToCompletion ==
    (round \in {1, 2} /\ HasChannelAxis(img)
        /\ call.tile_size[1] > 0 /\ call.tile_size[2] > 0
        /\ valid_input(img.size, call.tile_size, call.ordering) = "True") =>
        pc # "raised"

\* C6: after a legal call, every pixel and band of the output tile at slot s
\* (row-major, tiles tileHeight rows by tileWidth columns) equals the pixel at
\* the same in-tile offset of the input tile at slot ordering[s].
C6_Gather ==
    (LegalCall /\ pc = "saved") =>
        LET tw == call.tile_size[1]
            th == call.tile_size[2]
            cols == img.size[1] \div tw
            rows == img.size[2] \div th
            out == fs[call.out_path]
        IN /\ out.size = img.size /\ out.bands = img.bands
           /\ \A s \in 0..(rows * cols - 1), r \in 0..(th - 1),
                 c \in 0..(tw - 1), k \in 0..(img.bands - 1) :
                 LET src == call.ordering[s + 1]
                 IN Pixel(out, (s \div cols) * th + r, (s % cols) * tw + c, k)
                    = Pixel(img, (src \div cols) * th + r, (src % cols) * tw + c, k)

\* C7: a legal call with ordering [0,1,...,N-1] ends with the save of a buffer
\* identical to the input at every pixel and band.
C7_Identity ==
    (LegalCall /\ round = 1 /\ pc \in {"raised", "saved"}
        /\ call.ordering = identity(Len(call.ordering))) =>
        /\ pc = "saved"
        /\ fs[call.out_path] = img

\* C8: a legal call with a permutation p followed by a call on its result with
\* the inverse permutation both end with a save, and the second saves a buffer
\* identical to the original.
C8_RoundTrip ==
    (LegalCall /\ pc \in {"raised", "saved"}) =>
        /\ pc = "saved"
        /\ round = 2 => fs[call.out_path] = orig

\* C9: the buffer rearrange_tiles writes has the width, height and band count
\* of the input (and the array handed to the save has the input array's shape).
C9_ShapePreserved ==
    /\ pc \in {"assembled", "saved"} => arranged_img_arr.shape = img_arr.shape
    /\ pc = "saved" =>
          /\ fs[call.out_path].size = img.size
          /\ fs[call.out_path].bands = img.bands
          /\ Len(fs[call.out_path].data) = Len(img.data)

\* rearrange_tiles has written the rearrangement of a non-square image of
\* several tiles.
C9_Witness ==
    /\ pc = "saved" /\ round = 1
    /\ img.size[1] # img.size[2]
    /\ Len(call.ordering) >= 2
    /\ fs[call.out_path] # img

\* C10: for a non-square tile_size (tileW, tileH) with tileW dividing W and
\* tileH dividing H, rearrange_tiles works with tiles of tileH rows and tileW
\* columns in a grid of H / tileH rows and W / tileW columns, and does not raise.
C10_TileSizeOrder ==
    (LegalCall /\ call.tile_size[1] # call.tile_size[2]) =>
        /\ pc \in {"unpacked", "loop", "assembled", "saved"} =>
              /\ dims.tile_width = call.tile_size[1]
              /\ dims.tile_height = call.tile_size[2]
        /\ pc \in {"loop", "assembled", "saved"} =>
              /\ dims.rows = img.size[2] \div call.tile_size[2]
              /\ dims.cols = img.size[1] \div call.tile_size[1]
        /\ pc # "raised"

\* ------------------------------------- facts about the grid the code builds

\* The tile size evenly divides the image in the order line 60 reads it:
\* tile_size[0] against the height, tile_size[1] against the width.
DividesAsUnpacked ==
    /\ call.tile_size[1] > 0 /\ call.tile_size[2] > 0
    /\ Divides(call.tile_size[1], img.size[2])
    /\ Divides(call.tile_size[2], img.size[1])

\* A call on an image with a channel axis that valid_input accepts raises
\* exactly when the tile size does not divide the image as line 60 reads it.
RaisesIffNotDividesAsUnpacked ==
    (round \in {1, 2} /\ HasChannelAxis(img) /\ pc \in {"raised", "saved"}
        /\ valid_input(img.size, call.tile_size, call.ordering) = "True") =>
        (pc = "saved" <=> DividesAsUnpacked)

\* On the grid of lines 60-63 (tiles of tile_size[0] rows by tile_size[1]
\* columns) the saved output is the gather of the input by the ordering.
GatherOnBuiltGrid ==
    pc = "saved" =>
        LET th == dims.tile_height
            tw == dims.tile_width
            out == fs[call.out_path]
        IN \A s \in 0..(dims.rows * dims.cols - 1), r \in 0..(th - 1),
              c \in 0..(tw - 1), k \in 0..(img.bands - 1) :
              LET src == call.ordering[s + 1]
              IN Pixel(out, (s \div dims.cols) * th + r, (s % dims.cols) * tw + c, k)
                 = Pixel(img, (src \div dims.cols) * th + r, (src % dims.cols) * tw + c, k)

\* Whenever both calls of a round trip are saved, the second output is the
\* original image; an identity ordering that is saved saves the input.
RoundTripWhenSaved ==
    /\ (pc = "saved" /\ round = 2) => fs[call.out_path] = orig
    /\ (pc = "saved" /\ call.ordering = identity(Len(call.ordering))) =>
          fs[call.out_path] = img

\* The loop never divides by zero nor indexes outside the grid.
LoopNeverRaises ==
    pc = "raised" =>
        exc \in {InvalidArrangement, "ZeroDivisionError",
                 "ValueError: not enough values to unpack",
                 "ValueError: cannot reshape array"}
           /\ (exc = "ZeroDivisionError" => prod(call.tile_size) = 0)

====
